---------------------------- MODULE Spec2Model ----------------------------
(***************************************************************************)
(* Trader (trader/trading/trading_runtime.py): the connection supervisor   *)
(* (connect under backoff, connected/disconnected handlers) and the        *)
(* subscription reconciler (setup_subscriptions, update_portfolio_universe)*)
(* as one state machine over a single asyncio event loop.  Coroutines are  *)
(* tasks that interleave only at their awaits; connect() is synchronous.   *)
(* temp_handle_order (price snapshot through an AsyncCachedObserver, order *)
(* sizing) and cancel_order are the owner's order path.                    *)
(***************************************************************************)
EXTENDS Integers, Sequences, FiniteSets, TLC

\* ------------------------------------------------------------- bounds
MaxConId == 2
MaxItems == 3
MaxReplay == 1
MaxDisconnects == 1
MaxOwnerSetups == 1
MaxStream == 1
MaxCancels == 2
MaxOrderId == 2
MaxClientId == 2
MaxOrders == 2
TimeStep == 120
MaxNotional == 50
MaxPrice == 100
MaxWaits == 2
MaxRedButtons == 1

\* -------------------------------------------------- program constants
max_tries == 10
max_time == 120
NoneKey == 0

ConIds == 1..MaxConId
OrderIds == 1..MaxOrderId
ClientIds == 1..MaxClientId
Orders == [id : OrderIds, clientId : ClientIds]
Outcomes == {"details", "empty", "raise"}

VARIABLES
    gwPortfolio,        \* the gateway's portfolio snapshot, ib.portfolio(): conIds
    gwDetails,          \* the gateway's answer to get_contract_details, per conId
    gwOrders,           \* the gateway's open orders, reqAllOpenOrdersAsync()
    gwHist,             \* history subscriptions open on the gateway link, per conId
    gwCancels,          \* number of ib.cancelOrder calls issued
    globalCancels,      \* number of ib.reqGlobalCancel calls issued
    link,               \* state of self.client.ib: none/connecting/connected/
                        \* disconnected, or failed (the attempt raised another error)
    onConnected,        \* handlers registered on the link's connectedEvent
    onDisconnected,     \* handlers registered on the link's disconnectedEvent
    portfolioObs,       \* observers subscribed to the link's portfolio stream
    client_id_counter,  \* self.client.client_id_counter
    universe,           \* the persisted 'portfolio' universe (conIds, in order)
    market_data_subscriptions, \* keys of the dict, in insertion order
    book,               \* orders held by the Book
    bookAttached,       \* the Book is subscribed to the order events of the
                        \* client that is self.client now
    reported,           \* conIds whose reconciliation failure was logged
    conn,               \* the running connect() call: backoff loop state
    connResult,         \* how the last connect() call ended
    owner,              \* the process owner's position
    tasks,              \* scheduled / suspended coroutines of the event loop
    cancelResult,       \* result of the last cancel_order call
    connEvents,         \* connected events emitted so far
    setupRuns,          \* setup_subscriptions runs started by connected_event
    discEvents,         \* disconnected events emitted so far
    handlerConnects,    \* connect() calls made by disconnected_event
    ownerSetups,        \* setup_subscriptions calls made by the owner
    streamItems,        \* portfolio items pushed by the stream so far
    runsDone,           \* setup_subscriptions runs completed on the current link
    storeAtStart,       \* the 'portfolio' universe the previous session left persisted
    delivered,          \* conIds handed to update_portfolio_universe since the
                        \* latest connect() attempt
    setupErrors,        \* setup_subscriptions calls that raised ConnectionError
    sizing,             \* temp_handle_order: its position and its locals
    observer            \* the AsyncCachedObserver of temp_handle_order and its stream

vars == <<gwPortfolio, gwDetails, gwOrders, gwHist, gwCancels, globalCancels, link, onConnected,
          onDisconnected, portfolioObs, client_id_counter, universe,
          market_data_subscriptions, book, bookAttached, reported, conn,
          connResult, owner, tasks, cancelResult, connEvents, setupRuns,
          discEvents, handlerConnects, ownerSetups, streamItems, runsDone,
          storeAtStart, delivered, setupErrors, sizing, observer>>

orderVars == <<sizing, observer>>
gwVars == <<gwPortfolio, gwDetails, gwOrders>>
cancelVars == <<gwCancels, globalCancels, cancelResult, client_id_counter>>
countVars == <<connEvents, setupRuns, discEvents, handlerConnects, ownerSetups,
               streamItems>>

\* ------------------------------------------------------------ helpers
Min(a, b) == IF a < b THEN a ELSE b

RemoveAt(s, i) == SubSeq(s, 1, i - 1) \o SubSeq(s, i + 1, Len(s))

SeqsUpTo(S, n) == UNION {[1..k -> S] : k \in 0..n}

Range(s) == {s[i] : i \in 1..Len(s)}

\* ListHelper.isin(lst, lambda x: x.conId == c): the predicate is applied to
\* the elements in order; applied to None it raises AttributeError.
RECURSIVE ListHelper_isin(_, _)
ListHelper_isin(lst, c) ==
    IF lst = <<>> THEN "false"
    ELSE IF Head(lst) = NoneKey THEN "error"
    ELSE IF Head(lst) = c THEN "true"
    ELSE ListHelper_isin(Tail(lst), c)

universe_has_identity(security_definitions, c) == "false"

\* line 203: is the item's conId already in the universe read from the store
universe_has(security_definitions, c) == ListHelper_isin(security_definitions, c)

subscription_exists_never(keys, c) == "false"

\* line 217: is there a market-data subscription whose key has the item's conId
subscription_exists(keys, c) == ListHelper_isin(keys, c)

\* Universe.find_contract: the definition with the contract's conId, else None
find_contract(security_definitions, c) ==
    IF c \in Range(security_definitions) THEN c ELSE NoneKey

\* line 239: dict[security] = stream, keys kept in insertion order: the
\* possible dicts.  Each update_portfolio_universe call finds its security in
\* the universe copy it loaded itself (lines 202 and 222).  When
\* SecurityDefinition is hashed by its fields, a key with the same conId is
\* the same key; when it is hashed by identity, the key is a new one and
\* None is the one key that can repeat
dict_set(keys, k) ==
    { IF k \in Range(keys) THEN keys ELSE Append(keys, k),
      IF k = NoneKey /\ NoneKey \in Range(keys) THEN keys ELSE Append(keys, k) }

\* lines 209-212: append the resolved definition when details came back
append_details(security_definitions, c, details) ==
    IF details = "details" THEN Append(security_definitions, c)
    ELSE security_definitions

\* Book.get_order: the orders the Book holds under the id (none or one)
get_order(b, order_id) == {o \in b : o.id = order_id}

\* Book.asend: the Book is keyed by order id
book_asend(b, o) == {x \in b : x.id # o.id} \cup {o}

may_cancel_any(order, session_id) == TRUE

\* line 313: the order's clientId is the session's client id
may_cancel(order, session_id) == order.clientId = session_id

giveup_late(tries, elapsed) == tries > max_tries \/ elapsed >= max_time

\* line 114: backoff gives up at max_tries tries or after max_time seconds
giveup(tries, elapsed) == tries = max_tries \/ elapsed >= max_time

retriable_any(failure) == TRUE

\* line 114: backoff retries on ConnectionRefusedError and on nothing else
retriable(failure) == failure = "refused"

client_connect_immediate == "connected"

\* line 125: client.connect() starts an attempt on the new link
client_connect == "connecting"

register_handlers_none(n) == n

\* lines 123-124: += on the new link's lifecycle events
register_handlers(n) == n + 1

reuse_client(n) == n

\* line 116: a new IBAIORx; nothing is registered on its lifecycle events yet
new_client(n) == 0

clear_portfolio_universe_keeps(security_definitions) == security_definitions

\* lines 192-196: the universe is read, emptied and written back
clear_portfolio_universe(security_definitions) == <<>>

is_ib_connected_always(l) == TRUE

\* lines 322-323: self.client.ib.isConnected()
is_ib_connected(l) == l = "connected"

\* line 286: quantity = equity_amount / latest_tick.bid
divide(equity_amount, bid) == <<equity_amount, bid>>

floor_unit_none(q) == q

\* lines 288-289: a quantity strictly between 0 and 1 becomes 1.0
floor_unit(q) == IF q[1] < q[2] /\ q[1] > 0 THEN <<1, 1>> ELSE q

\* line 292: round() of a float with one argument: to the nearest integer,
\* a tie to the even one
round(q) ==
    LET k == q[1] \div q[2]
        r == q[1] % q[2]
    IN  IF 2 * r < q[2] THEN k
        ELSE IF 2 * r > q[2] THEN k + 1
        ELSE IF k % 2 = 0 THEN k ELSE k + 1

wait_value_cached(o) ==
    IF o.value # 0 THEN "value" ELSE IF o.error THEN "error" ELSE "suspended"

\* AsyncCachedObserver.wait_value: fails once the stream has failed, returns
\* the cached value if there is one, suspends the caller otherwise
wait_value(o) ==
    IF o.error THEN "error" ELSE IF o.value # 0 THEN "value" ELSE "suspended"

\* AsyncCachedObserver.athrow: the stream's error is kept for the waiter
athrow_captures == TRUE

\* AsyncCachedObserver.asend: the value is cached, a suspended waiter gets it
asend(o, v) ==
    [o EXCEPT !.stream = "value",
              !.value = v,
              !.waits = [i \in 1..Len(@) |->
                            IF @[i].res = "suspended"
                            THEN [@[i] EXCEPT !.res = "value", !.val = v]
                            ELSE @[i]]]

\* AsyncCachedObserver.athrow: the error is kept, a suspended waiter gets it
athrow(o) ==
    [o EXCEPT !.stream = "error",
              !.error = athrow_captures,
              !.escaped = ~athrow_captures,
              !.waits = [i \in 1..Len(@) |->
                            IF @[i].res = "suspended"
                            THEN [@[i] EXCEPT !.res = "error"]
                            ELSE @[i]]]

\* lines 274-277: Pipe.take(1) lets through the first value of the stream and
\* is then complete; an error goes through only when no value came before it
take(source, emitted) == IF emitted # 0 THEN "value" ELSE source

\* lines 141-182: the steps of setup_subscriptions, in program order; a step
\* runs from the return of one await to the call of the next
setup_subscriptions ==
    <<"check", "attach", "positions", "positions_sub", "subscribe", "replay",
      "orders", "feed", "end">>

StepAfter(pc) ==
    LET i == CHOOSE k \in 1..Len(setup_subscriptions) : setup_subscriptions[k] = pc
    IN  setup_subscriptions[i + 1]

disconnected_event_loops(result) == IF result = "ok" THEN "return" ELSE "again"

\* lines 188-190: disconnected_event returns (or raises) when connect() ends
disconnected_event(result) == "return"

\* att: the order events it passed to the Book at line 152 are the current
\* client's; cur: the portfolio stream it took at line 167 is the current
\* client's;
\* more: observers still to be given the item being reconciled;
\* fcur: it asked the current client, connected, for the open orders at
\* line 180;
\* orders: the list reqAllOpenOrdersAsync returned
NoTask == [kind |-> "none", pc |-> "none", upc |-> "none", idx |-> 0, item |-> 0,
           uni |-> <<>>, sec |-> 0, att |-> FALSE, by |-> "event", cur |-> FALSE,
           more |-> 0, fcur |-> FALSE, orders |-> <<>>]

\* line 116: self.client is a new object; what a coroutine took from the
\* previous client is not the current client's any more
OldClient(ts) ==
    [i \in 1..Len(ts) |-> [ts[i] EXCEPT !.att = FALSE, !.cur = FALSE,
                                         !.fcur = FALSE]]

\* self.client is set: connect() has been called and has returned or raised
HasClient == owner \in {"running", "failed"}

SetupTask == [NoTask EXCEPT !.kind = "setup", !.pc = "check"]
DiscTask == [NoTask EXCEPT !.kind = "disc", !.pc = "start"]
StreamTask(c) == [NoTask EXCEPT !.kind = "stream", !.pc = "update", !.item = c]

Spawn(ts, t, n) == ts \o [i \in 1..n |-> t]

\* the loop runs tasks unless connect() is asleep between two attempts
LoopRuns == conn.pc \in {"idle", "attempt"}

ConnIdle == [pc |-> "idle", caller |-> "none", tries |-> 0, elapsed |-> 0]

\* how a connect() call ended: its caller, its result and, for a failure, the
\* tries it made and the elapsed time the backoff loop read last
NoResult == [caller |-> "none", result |-> "none", tries |-> 0, elapsed |-> 0]

NoCancel == [id |-> 0, ret |-> "none", logged |-> FALSE]

\* temp_handle_order not called: no locals.  quantity is the fraction
\* <<numerator, denominator>>
NoOrder == [pc |-> "none", equity_amount |-> 0, bid |-> 0, quantity |-> <<0, 1>>,
            quantity_int |-> 0]

\* no snapshot requested, no AsyncCachedObserver built.  source: what the
\* snapshot stream has emitted (none/open/value/error) and emitted: the tick it
\* emitted while no observer was subscribed; stream: what has arrived at the
\* observer (none while it is not subscribed, open/value/error);
\* waits: the wait_value() calls made, in order
NoObserver == [source |-> "none", emitted |-> 0, stream |-> "none", value |-> 0,
               error |-> FALSE, escaped |-> FALSE, waits |-> <<>>]

\* ---------------------------------------------------------------- Init
InitWith(portfolios, details, orders, clientIds, stores) ==
    /\ gwPortfolio \in portfolios
    /\ gwDetails \in details
    /\ gwOrders \in orders
    /\ gwHist = [c \in ConIds |-> 0]
    /\ gwCancels = 0
    /\ globalCancels = 0
    /\ link = "none"
    /\ onConnected = 0
    /\ onDisconnected = 0
    /\ portfolioObs = 0
    /\ client_id_counter \in clientIds
    /\ universe \in stores
    /\ storeAtStart = universe
    /\ market_data_subscriptions = <<>>
    /\ book = {}
    /\ bookAttached = FALSE
    /\ reported = {}
    /\ conn = ConnIdle
    /\ connResult = NoResult
    /\ owner = "init"
    /\ tasks = <<>>
    /\ cancelResult = NoCancel
    /\ connEvents = 0
    /\ setupRuns = 0
    /\ discEvents = 0
    /\ handlerConnects = 0
    /\ ownerSetups = 0
    /\ streamItems = 0
    /\ runsDone = 0
    /\ delivered = {}
    /\ setupErrors = 0
    /\ sizing = NoOrder
    /\ observer = NoObserver

OneOrder == {<<[id |-> 1, clientId |-> 1]>>}

\* what a previous session may have left in the persisted 'portfolio' universe
Stores == {<<>>, <<1>>}

Init == InitWith(SeqsUpTo(ConIds, MaxReplay), [ConIds -> Outcomes], OneOrder, {1},
                 Stores)

\* ------------------------------------------------------------- connect
\* the owner calls connect() once, at startup
OwnerConnect ==
    /\ owner = "init"
    /\ conn.pc = "idle"
    /\ owner' = "connecting"
    /\ conn' = [pc |-> "try", caller |-> "owner", tries |-> 0, elapsed |-> 0]
    /\ UNCHANGED <<gwVars, storeAtStart, orderVars, delivered, setupErrors,
                   gwHist, link, onConnected, onDisconnected, portfolioObs,
                   universe, market_data_subscriptions, book, bookAttached,
                   reported, connResult, tasks, cancelVars, countVars, runsDone>>

\* one iteration of the backoff loop up to the call of client.connect():
\* lines 116-125.  The elapsed time is read at the top of the iteration.
ConnectTry ==
    /\ conn.pc = "try"
    /\ \E e \in {conn.elapsed, Min(conn.elapsed + TimeStep, max_time)} :
        /\ conn.tries = 0 => e = 0
        /\ conn' = [conn EXCEPT !.pc = "attempt", !.tries = @ + 1, !.elapsed = e]
    /\ universe' = clear_portfolio_universe(universe)
    /\ market_data_subscriptions' = <<>>
    /\ gwHist' = [c \in ConIds |-> 0]
    /\ portfolioObs' = 0
    /\ delivered' = {}
    /\ onConnected' = register_handlers(new_client(onConnected))
    /\ onDisconnected' = register_handlers(new_client(onDisconnected))
    /\ link' = client_connect
    /\ runsDone' = 0
    /\ tasks' = OldClient(tasks)
    /\ bookAttached' = FALSE
    /\ UNCHANGED <<gwVars, storeAtStart, orderVars, setupErrors,
                   book, reported, connResult, owner,
                   cancelVars, countVars>>

\* connect() returns to its caller after so many tries
ConnectEndsAt(result, ts, tries, elapsed) ==
    /\ conn' = ConnIdle
    /\ connResult' = IF result = "ok"
                     THEN [NoResult EXCEPT !.caller = conn.caller, !.result = "ok"]
                     ELSE [caller |-> conn.caller, result |-> result,
                           tries |-> tries, elapsed |-> elapsed]
    /\ IF conn.caller = "owner"
       THEN /\ owner' = IF result = "ok" THEN "running" ELSE "failed"
            /\ tasks' = ts
       ELSE /\ owner' = owner
            /\ tasks' = SelectSeq(ts, LAMBDA t : ~(t.kind = "disc" /\ t.pc = "connect"))
                        \o (IF disconnected_event(result) = "return" THEN <<>>
                            ELSE <<DiscTask>>)

ConnectEnds(result, ts) == ConnectEndsAt(result, ts, conn.tries, conn.elapsed)

\* lines 116-120: the new client is built at line 116, then building the
\* stores or reading and clearing the 'portfolio' universe raises: lines
\* 120-125 are not reached, so nothing is cleared, no handler is registered
\* on the new client and it is never connected.  The exception is not
\* ConnectionRefusedError: backoff lets it through to the caller of connect().
\* The elapsed time is read at the top of the iteration, as in ConnectTry
StoreFails ==
    /\ conn.pc = "try"
    /\ link' = "none"
    /\ onConnected' = new_client(onConnected)
    /\ onDisconnected' = new_client(onDisconnected)
    /\ portfolioObs' = 0
    /\ gwHist' = [c \in ConIds |-> 0]
    /\ delivered' = {}
    /\ runsDone' = 0
    /\ \E e \in {conn.elapsed, Min(conn.elapsed + TimeStep, max_time)} :
        /\ conn.tries = 0 => e = 0
        /\ IF retriable("error") /\ ~giveup(conn.tries + 1, e)
           THEN /\ conn' = [conn EXCEPT !.tries = @ + 1, !.elapsed = e]
                /\ tasks' = OldClient(tasks)
                /\ UNCHANGED <<connResult, owner>>
           ELSE ConnectEndsAt("error", OldClient(tasks), conn.tries + 1, e)
    /\ bookAttached' = FALSE
    /\ UNCHANGED <<gwVars, storeAtStart, orderVars, setupErrors, universe,
                   market_data_subscriptions, book, reported,
                   cancelVars, countVars>>

\* the gateway accepts: the link is connected and emits connectedEvent
LinkAccept ==
    /\ conn.pc = "attempt"
    /\ link = "connecting"
    /\ link' = "connected"
    /\ connEvents' = connEvents + 1
    /\ ConnectEnds("ok", Spawn(tasks, SetupTask, onConnected))
    /\ UNCHANGED <<gwVars, storeAtStart, orderVars, delivered, setupErrors,
                   gwHist, onConnected, onDisconnected, portfolioObs,
                   universe, market_data_subscriptions, book, bookAttached,
                   reported, cancelVars, setupRuns, discEvents, handlerConnects,
                   ownerSetups, streamItems, runsDone>>

\* the gateway refuses: ConnectionRefusedError reaches the backoff wrapper
LinkRefuse ==
    /\ conn.pc = "attempt"
    /\ link' = "disconnected"
    /\ IF giveup(conn.tries, conn.elapsed)
       THEN ConnectEnds("refused", tasks)
       ELSE /\ conn' = [conn EXCEPT !.pc = "try"]
            /\ UNCHANGED <<connResult, owner, tasks>>
    /\ UNCHANGED <<gwVars, storeAtStart, orderVars, delivered, setupErrors,
                   gwHist, onConnected, onDisconnected, portfolioObs,
                   universe, market_data_subscriptions, book, bookAttached,
                   reported, cancelVars, countVars, runsDone>>

\* line 125: client.connect() fails with an exception that is not
\* ConnectionRefusedError (a timeout): backoff lets it through to the caller
\* of connect()
LinkFails ==
    /\ conn.pc = "attempt"
    /\ link' = "failed"
    /\ IF retriable("error") /\ ~giveup(conn.tries, conn.elapsed)
       THEN /\ conn' = [conn EXCEPT !.pc = "try"]
            /\ UNCHANGED <<connResult, owner, tasks>>
       ELSE ConnectEnds("error", tasks)
    /\ UNCHANGED <<gwVars, storeAtStart, orderVars, delivered, setupErrors,
                   gwHist, onConnected, onDisconnected, portfolioObs,
                   universe, market_data_subscriptions, book, bookAttached,
                   reported, cancelVars, countVars, runsDone>>

\* ------------------------------------------------- lifecycle events
\* the link reports a disconnect: disconnectedEvent is emitted
EmitDisconnected ==
    /\ link = "connected"
    /\ discEvents < MaxDisconnects
    /\ link' = "disconnected"
    /\ discEvents' = discEvents + 1
    /\ tasks' = Spawn(tasks, DiscTask, onDisconnected)
    /\ UNCHANGED <<gwVars, storeAtStart, orderVars, delivered, setupErrors,
                   gwHist, onConnected, onDisconnected, portfolioObs,
                   universe, market_data_subscriptions, book, bookAttached,
                   reported, conn, connResult, owner, cancelVars, connEvents,
                   setupRuns, handlerConnects, ownerSetups, streamItems, runsDone>>

\* the gateway drops the connection
LinkDisconnect == EmitDisconnected

\* lines 127-129: reconnect() disconnects the link, which emits the event
reconnect ==
    /\ owner = "running"
    /\ EmitDisconnected

\* lines 188-190: disconnected_event calls connect()
DiscHandler(i) ==
    /\ LoopRuns
    /\ tasks[i].kind = "disc" /\ tasks[i].pc = "start"
    /\ conn.pc = "idle"
    /\ conn' = [pc |-> "try", caller |-> "handler", tries |-> 0, elapsed |-> 0]
    /\ handlerConnects' = handlerConnects + 1
    /\ tasks' = [tasks EXCEPT ![i].pc = "connect"]
    /\ UNCHANGED <<gwVars, storeAtStart, orderVars, delivered, setupErrors,
                   gwHist, link, onConnected, onDisconnected, portfolioObs,
                   universe, market_data_subscriptions, book, bookAttached,
                   reported, connResult, owner, cancelVars, connEvents, setupRuns,
                   discEvents, ownerSetups, streamItems, runsDone>>

\* the owner awaits setup_subscriptions() itself, on a Trader whose
\* self.client is set
OwnerSetup ==
    /\ HasClient
    /\ ownerSetups < MaxOwnerSetups
    /\ ownerSetups' = ownerSetups + 1
    /\ tasks' = Append(tasks, [SetupTask EXCEPT !.by = "owner"])
    /\ UNCHANGED <<gwVars, storeAtStart, orderVars, delivered, setupErrors,
                   gwHist, link, onConnected, onDisconnected, portfolioObs,
                   universe, market_data_subscriptions, book, bookAttached,
                   reported, conn, connResult, owner, cancelVars, connEvents,
                   setupRuns, discEvents, handlerConnects, streamItems, runsDone>>

\* ------------------------------------------------ setup_subscriptions
\* task i after one of its steps: a finished coroutine leaves the loop
Settle(i, t) ==
    IF (t.kind = "setup" /\ t.pc = "end") \/ (t.kind = "stream" /\ t.upc = "none")
    THEN RemoveAt(tasks, i)
    ELSE [tasks EXCEPT ![i] = t]

Completes(t) == t.kind = "setup" /\ t.pc = "end"

\* lines 142-152: not connected raises ConnectionError; connected, the run
\* calls book.subscribe_to_eventkit_event with the order events of self.client
SetupCheck(i) ==
    /\ LoopRuns
    /\ tasks[i].kind = "setup" /\ tasks[i].pc = "check"
    /\ setupRuns' = IF tasks[i].by = "event" THEN setupRuns + 1 ELSE setupRuns
    /\ IF is_ib_connected(link)
       THEN /\ tasks' = Settle(i, [tasks[i] EXCEPT !.pc = StepAfter("check"),
                                                   !.att = TRUE])
            /\ setupErrors' = setupErrors
       ELSE /\ tasks' = RemoveAt(tasks, i)
            /\ setupErrors' = setupErrors + 1
    /\ UNCHANGED <<gwVars, storeAtStart, orderVars, delivered,
                   gwHist, link, onConnected, onDisconnected, portfolioObs,
                   universe, market_data_subscriptions, book, bookAttached,
                   reported, conn, connResult, owner, cancelVars, connEvents,
                   discEvents, handlerConnects, ownerSetups, streamItems, runsDone>>

\* lines 152-160: the Book is subscribed to the order events the run passed
\* at line 152, which are the current client's unless line 116 has replaced
\* self.client since
SetupAttach(i) ==
    /\ LoopRuns
    /\ tasks[i].kind = "setup" /\ tasks[i].pc = "attach"
    /\ bookAttached' = (bookAttached \/ tasks[i].att)
    /\ LET t == [tasks[i] EXCEPT !.pc = StepAfter("attach"), !.att = FALSE]
       IN  /\ tasks' = Settle(i, t)
           /\ runsDone' = IF Completes(t) THEN runsDone + 1 ELSE runsDone
    /\ UNCHANGED <<gwVars, storeAtStart, orderVars, delivered, setupErrors,
                   gwHist, link, onConnected, onDisconnected, portfolioObs,
                   universe, market_data_subscriptions, book, reported, conn,
                   connResult, owner, cancelVars, countVars>>

\* lines 162-163: subscribe_positions() has returned the positions stream;
\* subscribe_async is called on it
SetupPositions(i) ==
    /\ LoopRuns
    /\ tasks[i].kind = "setup" /\ tasks[i].pc = "positions"
    /\ LET t == [tasks[i] EXCEPT !.pc = StepAfter("positions")]
       IN  /\ tasks' = Settle(i, t)
           /\ runsDone' = IF Completes(t) THEN runsDone + 1 ELSE runsDone
    /\ UNCHANGED <<gwVars, storeAtStart, orderVars, delivered, setupErrors,
                   gwHist, link, onConnected, onDisconnected, portfolioObs,
                   universe, market_data_subscriptions, book, bookAttached,
                   reported, conn, connResult, owner, cancelVars, countVars>>

\* lines 163-167: the positions observer is subscribed; subscribe_portfolio()
\* is called on the client that is self.client now
SetupPositionsSub(i) ==
    /\ LoopRuns
    /\ tasks[i].kind = "setup" /\ tasks[i].pc = "positions_sub"
    /\ LET t == [tasks[i] EXCEPT !.pc = StepAfter("positions_sub"), !.cur = TRUE]
       IN  /\ tasks' = Settle(i, t)
           /\ runsDone' = IF Completes(t) THEN runsDone + 1 ELSE runsDone
    /\ UNCHANGED <<gwVars, storeAtStart, orderVars, delivered, setupErrors,
                   gwHist, link, onConnected, onDisconnected, portfolioObs,
                   universe, market_data_subscriptions, book, bookAttached,
                   reported, conn, connResult, owner, cancelVars, countVars>>

\* lines 167-170: subscribe_portfolio() has returned the stream of the client
\* it was called on; the observer is subscribed to that stream
SetupSubscribe(i) ==
    /\ LoopRuns
    /\ tasks[i].kind = "setup" /\ tasks[i].pc = "subscribe"
    /\ portfolioObs' = IF tasks[i].cur THEN portfolioObs + 1 ELSE portfolioObs
    /\ LET t == [tasks[i] EXCEPT !.pc = StepAfter("subscribe"), !.cur = FALSE]
       IN  /\ tasks' = Settle(i, t)
           /\ runsDone' = IF Completes(t) THEN runsDone + 1 ELSE runsDone
    /\ UNCHANGED <<gwVars, storeAtStart, orderVars, delivered, setupErrors,
                   gwHist, link, onConnected, onDisconnected, universe,
                   market_data_subscriptions, book, bookAttached, reported, conn,
                   connResult, owner, cancelVars, countVars>>

\* lines 202-208: update_portfolio_universe up to its first await; when the
\* conId is in the universe it returns at once, for every observer
BeginUpdate(t, c) ==
    LET has == universe_has(universe, c) = "true"
    IN  [t EXCEPT !.item = c, !.uni = universe,
                  !.upc = IF has THEN "none" ELSE "resolve",
                  !.more = IF has THEN 0 ELSE @]

\* the subject's asend goes on to its next observer, whose
\* update_portfolio_universe reads the universe as persisted now (u)
NextObserver(t, u) ==
    IF t.more > 0 /\ universe_has(u, t.item) # "true"
    THEN [t EXCEPT !.more = @ - 1, !.uni = u, !.upc = "resolve"]
    ELSE [t EXCEPT !.more = 0, !.upc = "none"]

\* lines 174-175: the replay loop sends the next item of ib.portfolio() to
\* the portfolio subject of the client that is self.client now; with no
\* observer on it the items go nowhere and the loop runs through
ReplayNext(i) ==
    /\ LoopRuns
    /\ tasks[i].kind = "setup" /\ tasks[i].pc = "replay" /\ tasks[i].upc = "none"
    /\ LET t == tasks[i]
       IN  IF t.idx < Len(gwPortfolio) /\ portfolioObs > 0
           THEN /\ tasks' = Settle(i, BeginUpdate(
                                [t EXCEPT !.idx = @ + 1, !.more = portfolioObs - 1],
                                gwPortfolio[t.idx + 1]))
                /\ delivered' = delivered \cup {gwPortfolio[t.idx + 1]}
           ELSE /\ tasks' = Settle(i, [t EXCEPT !.pc = StepAfter("replay"),
                                                !.idx = 0,
                                                !.fcur = is_ib_connected(link)])
                /\ delivered' = delivered
    /\ UNCHANGED <<gwVars, storeAtStart, orderVars, setupErrors,
                   gwHist, link, onConnected, onDisconnected, portfolioObs,
                   universe, market_data_subscriptions, book, bookAttached,
                   reported, conn, connResult, owner, cancelVars, countVars,
                   runsDone>>

\* the portfolio stream of the current link pushes an item to its observers
StreamItem(c) ==
    /\ LoopRuns
    /\ link = "connected"
    /\ portfolioObs > 0
    /\ streamItems < MaxStream
    /\ streamItems' = streamItems + 1
    /\ delivered' = delivered \cup {c}
    /\ LET t == BeginUpdate([StreamTask(c) EXCEPT !.more = portfolioObs - 1], c)
       IN  tasks' = IF t.upc = "none" THEN tasks ELSE Append(tasks, t)
    /\ UNCHANGED <<gwVars, storeAtStart, orderVars, setupErrors,
                   gwHist, link, onConnected, onDisconnected, portfolioObs,
                   universe, market_data_subscriptions, book, bookAttached,
                   reported, conn, connResult, owner, cancelVars, connEvents,
                   setupRuns, discEvents, handlerConnects, ownerSetups, runsDone>>

\* lines 208-238: get_contract_details has answered; the universe is persisted
\* and, if no subscription has the key, the history subscription is requested
UpdateResolved(i) ==
    /\ LoopRuns
    /\ tasks[i].upc = "resolve"
    /\ LET t == tasks[i]
           c == t.item
           u == append_details(t.uni, c, gwDetails[c])
           found == subscription_exists(market_data_subscriptions, c)
       IN  IF gwDetails[c] = "raise"
           THEN /\ reported' = reported \cup {c}
                /\ tasks' = Settle(i, NextObserver(t, universe))
                /\ UNCHANGED <<universe, gwHist>>
           ELSE /\ universe' = u
                /\ reported' = IF found = "error" THEN reported \cup {c} ELSE reported
                /\ gwHist' = IF found = "false" THEN [gwHist EXCEPT ![c] = @ + 1]
                             ELSE gwHist
                /\ tasks' = IF found = "false"
                            THEN Settle(i, [t EXCEPT !.uni = u, !.upc = "subscribe",
                                                     !.sec = find_contract(u, c)])
                            ELSE Settle(i, NextObserver([t EXCEPT !.uni = u], u))
    /\ UNCHANGED <<gwVars, storeAtStart, orderVars, delivered, setupErrors,
                   link, onConnected, onDisconnected, portfolioObs,
                   market_data_subscriptions, book, bookAttached, conn, connResult,
                   owner, cancelVars, countVars, runsDone>>

\* line 239: the history subscription is open; the stream is recorded
UpdateSubscribed(i) ==
    /\ LoopRuns
    /\ tasks[i].upc = "subscribe"
    /\ market_data_subscriptions' \in dict_set(market_data_subscriptions, tasks[i].sec)
    /\ tasks' = Settle(i, NextObserver(tasks[i], universe))
    /\ UNCHANGED <<gwVars, storeAtStart, orderVars, delivered, setupErrors,
                   gwHist, link, onConnected, onDisconnected, portfolioObs,
                   universe, book, bookAttached, reported, conn, connResult, owner,
                   cancelVars, countVars, runsDone>>

\* lines 178-180: market-data type is set, the open orders are fetched
SetupOrders(i) ==
    /\ LoopRuns
    /\ tasks[i].kind = "setup" /\ tasks[i].pc = "orders"
    /\ tasks' = Settle(i, [tasks[i] EXCEPT !.pc = StepAfter("orders"), !.idx = 0,
                                          !.orders = gwOrders])
    /\ UNCHANGED <<gwVars, storeAtStart, orderVars, delivered, setupErrors,
                   gwHist, link, onConnected, onDisconnected, portfolioObs,
                   universe, market_data_subscriptions, book, bookAttached,
                   reported, conn, connResult, owner, cancelVars, countVars,
                   runsDone>>

\* lines 181-182: each order of the list fetched at line 180 is fed to the Book
SetupFeed(i) ==
    /\ LoopRuns
    /\ tasks[i].kind = "setup" /\ tasks[i].pc = "feed"
    /\ LET t == tasks[i]
       IN  IF t.idx < Len(t.orders)
           THEN /\ book' = book_asend(book, t.orders[t.idx + 1])
                /\ tasks' = Settle(i, [t EXCEPT !.idx = @ + 1])
                /\ UNCHANGED runsDone
           ELSE LET t2 == [t EXCEPT !.pc = StepAfter("feed"), !.idx = 0,
                                    !.fcur = FALSE, !.orders = <<>>]
                IN  /\ tasks' = Settle(i, t2)
                    /\ runsDone' = IF Completes(t2) THEN runsDone + 1 ELSE runsDone
                    /\ UNCHANGED book
    /\ UNCHANGED <<gwVars, storeAtStart, orderVars, delivered, setupErrors,
                   gwHist, link, onConnected, onDisconnected, portfolioObs,
                   universe, market_data_subscriptions, bookAttached, reported,
                   conn, connResult, owner, cancelVars, countVars>>

TaskIds == 1..Len(tasks)

\* -------------------------------------------------- temp_handle_order
\* line 272: temp_handle_order is called, whatever the state of the link; the
\* price snapshot is requested from self.client and the call awaits the stream
HandleOrder(equity_amount) ==
    /\ HasClient
    /\ sizing.pc = "none"
    /\ sizing' = [NoOrder EXCEPT !.pc = "request", !.equity_amount = equity_amount]
    /\ observer' = [NoObserver EXCEPT !.source = "open"]
    /\ UNCHANGED <<gwVars, storeAtStart, delivered, setupErrors, gwHist, link,
                   onConnected, onDisconnected, portfolioObs, universe,
                   market_data_subscriptions, book, bookAttached, reported, conn,
                   connResult, owner, tasks, cancelVars, countVars, runsDone>>

\* lines 272-280: subscribe_contract has returned the stream; the observer is
\* built and subscribed to take(1) of it.  What the stream emitted before
\* (replayed) goes through take(1) to the new observer or is lost to it, as
\* the stream decides
SnapshotRequested ==
    /\ sizing.pc = "request"
    /\ sizing' = [sizing EXCEPT !.pc = "subscribe"]
    /\ \E replayed \in BOOLEAN :
        /\ observer.source = "open" => replayed
        /\ LET o == [observer EXCEPT !.stream = "open", !.emitted = 0]
               passed == take(observer.source, observer.emitted)
           IN  observer' = IF ~replayed \/ passed = "open" THEN o
                           ELSE IF passed = "value" THEN asend(o, observer.emitted)
                           ELSE athrow(o)
    /\ UNCHANGED <<gwVars, storeAtStart, delivered, setupErrors, gwHist, link,
                   onConnected, onDisconnected, portfolioObs, universe,
                   market_data_subscriptions, book, bookAttached, reported, conn,
                   connResult, owner, tasks, cancelVars, countVars, runsDone>>

\* lines 280-281: subscribe_async has returned; wait_value() is called next
ObserverSubscribed ==
    /\ sizing.pc = "subscribe"
    /\ sizing' = [sizing EXCEPT !.pc = "wait"]
    /\ UNCHANGED <<gwVars, storeAtStart, delivered, setupErrors, gwHist, link,
                   onConnected, onDisconnected, portfolioObs, universe,
                   market_data_subscriptions, book, bookAttached, reported, conn,
                   connResult, owner, tasks, cancelVars, countVars, runsDone,
                   observer>>

\* the snapshot stream emits its tick: a subscribed observer caches it and a
\* suspended waiter gets it
StreamValue(v) ==
    /\ observer.source = "open"
    /\ observer' = IF observer.stream = "none"
                   THEN [observer EXCEPT !.source = "value", !.emitted = v]
                   ELSE asend([observer EXCEPT !.source = "value"], v)
    /\ UNCHANGED <<gwVars, storeAtStart, delivered, setupErrors, gwHist, link,
                   onConnected, onDisconnected, portfolioObs, universe,
                   market_data_subscriptions, book, bookAttached, reported, conn,
                   connResult, owner, tasks, cancelVars, countVars, runsDone,
                   sizing>>

\* the snapshot stream fails: the error reaches a subscribed observer, and
\* its suspended waiter, only while take(1) has let no value through
StreamError ==
    /\ observer.source \in {"open", "value"}
    /\ observer' = IF observer.stream = "open"
                   THEN athrow([observer EXCEPT !.source = "error"])
                   ELSE [observer EXCEPT !.source = "error"]
    /\ UNCHANGED <<gwVars, storeAtStart, delivered, setupErrors, gwHist, link,
                   onConnected, onDisconnected, portfolioObs, universe,
                   market_data_subscriptions, book, bookAttached, reported, conn,
                   connResult, owner, tasks, cancelVars, countVars, runsDone,
                   sizing>>

\* line 281: temp_handle_order calls wait_value(), once
WaitValue ==
    /\ sizing.pc = "wait"
    /\ observer.waits = <<>>
    /\ LET res == wait_value(observer)
       IN  observer' = [observer EXCEPT !.waits = Append(@,
               [at |-> observer.stream, res |-> res,
                val |-> IF res = "value" THEN observer.value ELSE 0])]
    /\ UNCHANGED <<gwVars, storeAtStart, delivered, setupErrors, gwHist, link,
                   onConnected, onDisconnected, portfolioObs, universe,
                   market_data_subscriptions, book, bookAttached, reported, conn,
                   connResult, owner, tasks, cancelVars, countVars, runsDone,
                   sizing>>

\* lines 286-308: wait_value() returned the tick; the quantity is computed and
\* the limit order submitted with it
SizeOrder ==
    /\ sizing.pc = "wait"
    /\ Len(observer.waits) >= 1
    /\ observer.waits[1].res = "value"
    /\ LET bid == observer.waits[1].val
           quantity == floor_unit(divide(sizing.equity_amount, bid))
       IN  sizing' = [sizing EXCEPT !.pc = "placed", !.bid = bid,
                                    !.quantity = quantity,
                                    !.quantity_int = round(quantity)]
    /\ UNCHANGED <<gwVars, storeAtStart, delivered, setupErrors, gwHist, link,
                   onConnected, onDisconnected, portfolioObs, universe,
                   market_data_subscriptions, book, bookAttached, reported, conn,
                   connResult, owner, tasks, cancelVars, countVars, runsDone,
                   observer>>

\* line 281: wait_value() raised; temp_handle_order ends with the error
OrderFails ==
    /\ sizing.pc = "wait"
    /\ Len(observer.waits) >= 1
    /\ observer.waits[1].res = "error"
    /\ sizing' = [sizing EXCEPT !.pc = "failed"]
    /\ UNCHANGED <<gwVars, storeAtStart, delivered, setupErrors, gwHist, link,
                   onConnected, onDisconnected, portfolioObs, universe,
                   market_data_subscriptions, book, bookAttached, reported, conn,
                   connResult, owner, tasks, cancelVars, countVars, runsDone,
                   observer>>

\* ------------------------------------------- AsyncCachedObserver alone
\* an AsyncCachedObserver is subscribed to a stream directly
CachedSubscribe ==
    /\ sizing.pc = "none"
    /\ observer = NoObserver
    /\ observer' = [NoObserver EXCEPT !.source = "open", !.stream = "open"]
    /\ UNCHANGED <<gwVars, storeAtStart, delivered, setupErrors, gwHist, link,
                   onConnected, onDisconnected, portfolioObs, universe,
                   market_data_subscriptions, book, bookAttached, reported, conn,
                   connResult, owner, tasks, cancelVars, countVars, runsDone,
                   sizing>>

\* the stream sends a value to the observer
CachedValue(v) ==
    /\ sizing.pc = "none"
    /\ observer.stream = "open"
    /\ observer' = asend([observer EXCEPT !.source = "value"], v)
    /\ UNCHANGED <<gwVars, storeAtStart, delivered, setupErrors, gwHist, link,
                   onConnected, onDisconnected, portfolioObs, universe,
                   market_data_subscriptions, book, bookAttached, reported, conn,
                   connResult, owner, tasks, cancelVars, countVars, runsDone,
                   sizing>>

\* the stream fails, before or after its value
CachedError ==
    /\ sizing.pc = "none"
    /\ observer.stream \in {"open", "value"}
    /\ observer' = athrow([observer EXCEPT !.source = "error"])
    /\ UNCHANGED <<gwVars, storeAtStart, delivered, setupErrors, gwHist, link,
                   onConnected, onDisconnected, portfolioObs, universe,
                   market_data_subscriptions, book, bookAttached, reported, conn,
                   connResult, owner, tasks, cancelVars, countVars, runsDone,
                   sizing>>

\* wait_value() is called on the observer while no earlier call is suspended
CachedWait ==
    /\ sizing.pc = "none"
    /\ observer.stream # "none"
    /\ Len(observer.waits) < MaxWaits
    /\ \A i \in 1..Len(observer.waits) : observer.waits[i].res # "suspended"
    /\ LET res == wait_value(observer)
       IN  observer' = [observer EXCEPT !.waits = Append(@,
               [at |-> observer.stream, res |-> res,
                val |-> IF res = "value" THEN observer.value ELSE 0])]
    /\ UNCHANGED <<gwVars, storeAtStart, delivered, setupErrors, gwHist, link,
                   onConnected, onDisconnected, portfolioObs, universe,
                   market_data_subscriptions, book, bookAttached, reported, conn,
                   connResult, owner, tasks, cancelVars, countVars, runsDone,
                   sizing>>

\* ------------------------------------------------------- cancel_order
\* lines 310-320: called on a Trader whose self.client is set
cancel_order(order_id) ==
    /\ HasClient
    /\ gwCancels < MaxCancels
    /\ LET found == get_order(book, order_id)
       IN  IF found # {} /\ \A o \in found : may_cancel(o, client_id_counter)
           THEN /\ gwCancels' = gwCancels + 1
                /\ cancelResult' = [id |-> order_id, ret |-> "Trade", logged |-> FALSE]
           ELSE /\ gwCancels' = gwCancels
                /\ cancelResult' = [id |-> order_id, ret |-> "None", logged |-> TRUE]
    /\ UNCHANGED <<gwVars, storeAtStart, orderVars, delivered, setupErrors,
                   gwHist, globalCancels, link, onConnected, onDisconnected,
                   portfolioObs, client_id_counter, universe,
                   market_data_subscriptions, book, bookAttached, reported, conn,
                   connResult, owner, tasks, countVars, runsDone>>

\* lines 325-326: red_button asks the gateway to cancel every open order,
\* whatever client id placed it; the Book is not consulted and nothing is
\* returned.  The request reaches the gateway over a connected link only,
\* and the gateway has then cancelled its open orders or still keeps them
red_button ==
    /\ HasClient
    /\ globalCancels < MaxRedButtons
    /\ globalCancels' = globalCancels + 1
    /\ \E cancelled \in BOOLEAN :
        gwOrders' = IF is_ib_connected(link) /\ cancelled THEN <<>> ELSE gwOrders
    /\ UNCHANGED <<gwPortfolio, gwDetails, storeAtStart, orderVars, delivered,
                   setupErrors, gwHist, gwCancels, cancelResult, link, onConnected,
                   onDisconnected, portfolioObs, client_id_counter, universe,
                   market_data_subscriptions, book, bookAttached, reported, conn,
                   connResult, owner, tasks, countVars, runsDone>>

\* the owner awaits setup_subscriptions() while nothing else is in flight
OwnerSetupSeq ==
    /\ tasks = <<>>
    /\ OwnerSetup

Next ==
    \/ OwnerConnect
    \/ ConnectTry
    \/ LinkAccept
    \/ LinkRefuse
    \/ LinkDisconnect
    \/ reconnect
    \/ \E c \in ConIds : StreamItem(c)
    \/ \E i \in TaskIds : DiscHandler(i)
    \/ \E i \in TaskIds : SetupCheck(i)
    \/ \E i \in TaskIds : SetupAttach(i)
    \/ \E i \in TaskIds : SetupPositions(i)
    \/ \E i \in TaskIds : SetupPositionsSub(i)
    \/ \E i \in TaskIds : SetupSubscribe(i)
    \/ \E i \in TaskIds : ReplayNext(i)
    \/ \E i \in TaskIds : UpdateResolved(i)
    \/ \E i \in TaskIds : UpdateSubscribed(i)
    \/ \E i \in TaskIds : SetupOrders(i)
    \/ \E i \in TaskIds : SetupFeed(i)

Spec == Init /\ [][Next]_vars

\* one connection, reconciliations one after the other: no stream pushes,
\* no disconnect, the owner re-runs setup_subscriptions between runs
InitSeq == InitWith(SeqsUpTo(ConIds, MaxItems), [ConIds -> Outcomes], OneOrder, {1},
                    Stores)

NextSeq ==
    \/ OwnerConnect
    \/ ConnectTry
    \/ LinkAccept
    \/ LinkRefuse
    \/ OwnerSetupSeq
    \/ \E i \in TaskIds : SetupCheck(i)
    \/ \E i \in TaskIds : SetupAttach(i)
    \/ \E i \in TaskIds : SetupPositions(i)
    \/ \E i \in TaskIds : SetupPositionsSub(i)
    \/ \E i \in TaskIds : SetupSubscribe(i)
    \/ \E i \in TaskIds : ReplayNext(i)
    \/ \E i \in TaskIds : UpdateResolved(i)
    \/ \E i \in TaskIds : UpdateSubscribed(i)
    \/ \E i \in TaskIds : SetupOrders(i)
    \/ \E i \in TaskIds : SetupFeed(i)

SpecSeq == InitSeq /\ [][NextSeq]_vars

\* the session with an empty portfolio and any open-orders snapshot: the Book
\* is filled by setup_subscriptions and the owner cancels orders
InitCancel == InitWith({<<>>}, {[c \in ConIds |-> "details"]},
                       SeqsUpTo(Orders, MaxOrders), ClientIds, Stores)

NextCancel ==
    \/ OwnerConnect
    \/ ConnectTry
    \/ LinkAccept
    \/ LinkRefuse
    \/ \E i \in TaskIds : SetupCheck(i)
    \/ \E i \in TaskIds : SetupAttach(i)
    \/ \E i \in TaskIds : SetupPositions(i)
    \/ \E i \in TaskIds : SetupPositionsSub(i)
    \/ \E i \in TaskIds : SetupSubscribe(i)
    \/ \E i \in TaskIds : ReplayNext(i)
    \/ \E i \in TaskIds : SetupOrders(i)
    \/ \E i \in TaskIds : SetupFeed(i)
    \/ \E id \in 1..(MaxOrderId + 1) : cancel_order(id)
    \/ red_button

SpecCancel == InitCancel /\ [][NextCancel]_vars

\* the event loop keeps running what is runnable, connect() keeps retrying
\* and the gateway answers every connection attempt
Progress ==
    \/ ConnectTry
    \/ LinkAccept
    \/ LinkRefuse
    \/ \E i \in TaskIds : DiscHandler(i)
    \/ \E i \in TaskIds : SetupCheck(i)
    \/ \E i \in TaskIds : SetupAttach(i)
    \/ \E i \in TaskIds : SetupPositions(i)
    \/ \E i \in TaskIds : SetupPositionsSub(i)
    \/ \E i \in TaskIds : SetupSubscribe(i)
    \/ \E i \in TaskIds : ReplayNext(i)
    \/ \E i \in TaskIds : UpdateResolved(i)
    \/ \E i \in TaskIds : UpdateSubscribed(i)
    \/ \E i \in TaskIds : SetupOrders(i)
    \/ \E i \in TaskIds : SetupFeed(i)

FairSpec == Spec /\ WF_vars(Progress)

\* the connection lifecycle with the snapshot replay but no stream pushes: a
\* portfolio of one instrument, whose details resolve, come back empty or raise
InitLife == InitWith(SeqsUpTo({1}, MaxReplay),
                     {[c \in ConIds |-> o] : o \in Outcomes}, OneOrder, {1}, Stores)

NextLife ==
    \/ OwnerConnect
    \/ ConnectTry
    \/ LinkAccept
    \/ LinkRefuse
    \/ LinkDisconnect
    \/ reconnect
    \/ \E i \in TaskIds : DiscHandler(i)
    \/ \E i \in TaskIds : SetupCheck(i)
    \/ \E i \in TaskIds : SetupAttach(i)
    \/ \E i \in TaskIds : SetupPositions(i)
    \/ \E i \in TaskIds : SetupPositionsSub(i)
    \/ \E i \in TaskIds : SetupSubscribe(i)
    \/ \E i \in TaskIds : ReplayNext(i)
    \/ \E i \in TaskIds : UpdateResolved(i)
    \/ \E i \in TaskIds : UpdateSubscribed(i)
    \/ \E i \in TaskIds : SetupOrders(i)
    \/ \E i \in TaskIds : SetupFeed(i)

SpecLife == InitLife /\ [][NextLife]_vars

\* the same lifecycle from an empty store and with details that resolve,
\* under fair scheduling
InitFair == InitWith(SeqsUpTo({1}, MaxReplay), {[c \in ConIds |-> "details"]},
                     OneOrder, {1}, {<<>>})

FairLife == InitFair /\ [][NextLife]_vars /\ WF_vars(Progress)

\* ---------------------------------------------------------------- claims
Count(s, x) == Cardinality({i \in 1..Len(s) : s[i] = x})

Keys(s) == {s[i] : i \in 1..Len(s)}

AllResolve == \A c \in Keys(gwPortfolio) : gwDetails[c] = "details"

\* C1: reconciling portfolio items one after the other within one connection
\* leaves at most one 'portfolio' universe entry, at most one
\* market_data_subscriptions key and at most one gateway history subscription
\* per conId; when every item's details resolve, a completed run leaves exactly
\* one universe entry and one subscription per distinct conId of the snapshot
\* (3 items with 2 distinct keys: 2 entries, 2 subscriptions).
C1_OneEntryPerKey ==
    /\ \A c \in ConIds :
        /\ Count(universe, c) <= 1
        /\ Count(market_data_subscriptions, c) <= 1
        /\ gwHist[c] <= 1
    /\ (runsDone >= 1 /\ AllResolve) =>
        /\ Len(universe) = Cardinality(Keys(gwPortfolio))
        /\ Keys(universe) = Keys(gwPortfolio)
        /\ Len(market_data_subscriptions) = Cardinality(Keys(gwPortfolio))
        /\ Keys(market_data_subscriptions) = Keys(gwPortfolio)
        /\ \A c \in Keys(gwPortfolio) : gwHist[c] = 1

C1_Witness ==
    /\ Len(gwPortfolio) = 3
    /\ Cardinality(Keys(gwPortfolio)) = 2
    /\ AllResolve
    /\ runsDone >= 1
    /\ Len(universe) = 2
    /\ Len(market_data_subscriptions) = 2

\* C2: while a setup_subscriptions run has the open-orders snapshot requested
\* from the current client over its connected link, fetched or partly fed to
\* the Book, the Book is subscribed to the live order events, those of the
\* current client.
C2_AttachBeforeOrders ==
    \A i \in TaskIds :
        (tasks[i].kind = "setup" /\ tasks[i].pc \in {"orders", "feed"}
                                /\ tasks[i].fcur)
            => bookAttached

Owned(order_id) ==
    \E o \in book : o.id = order_id /\ o.clientId = client_id_counter

\* C3: a cancel_order(id) call issues one gateway cancel call and returns its
\* trade exactly when the Book holds an order with that id whose clientId is
\* the session's client id; in every other case it issues no gateway call,
\* logs the ownership error and returns None.
C3_CancelOnlyOwned ==
    [][(cancelResult' # cancelResult \/ gwCancels' # gwCancels) =>
        /\ (cancelResult'.ret = "Trade") <=> Owned(cancelResult'.id)
        /\ gwCancels' = IF Owned(cancelResult'.id) THEN gwCancels + 1 ELSE gwCancels
        /\ ~Owned(cancelResult'.id) =>
              (cancelResult'.ret = "None" /\ cancelResult'.logged)]_vars

C3_Witness ==
    /\ cancelResult.ret = "None"
    /\ \E o \in book : o.id = cancelResult.id /\ o.clientId # client_id_counter
    /\ gwCancels = 1

\* C4: connect() makes at most max_tries attempts; it retries after a refusal
\* only while the tries are below max_tries and the elapsed time is below
\* max_time, and otherwise ends, delivering the refusal to its caller; every
\* connect() call ends, whatever the gateway answers.
C4_Bounds ==
    /\ conn.tries <= max_tries
    /\ (conn.pc = "try" /\ conn.tries >= 1)
           => (conn.tries < max_tries /\ conn.elapsed < max_time)
    /\ connResult.result = "refused"
           => /\ connResult.tries <= max_tries
              /\ connResult.tries = max_tries \/ connResult.elapsed >= max_time
    /\ owner = "failed"
           => (connResult.result = "refused" /\ connResult.caller = "owner"
               /\ conn.pc = "idle")

C4_BackoffBounded ==
    /\ []C4_Bounds
    /\ (conn.pc # "idle") ~> (conn.pc = "idle")

C4_Witness ==
    /\ owner = "failed"
    /\ connResult.tries = max_tries
    /\ connResult.elapsed < max_time

\* C5: every connected event (the n-th, for the first connection and for each
\* reconnect) is followed by the start of a setup_subscriptions run by
\* connected_event, and no run starts without its event.
C5_ConnectedLeadsToSetup ==
    /\ [](setupRuns <= connEvents)
    /\ \A n \in 1..(MaxDisconnects + 1) : (connEvents >= n) ~> (setupRuns >= n)

C5_Witness ==
    /\ connEvents = 2
    /\ setupRuns = 2
    /\ discEvents >= 1

PendingDisc ==
    Cardinality({i \in TaskIds : tasks[i].kind = "disc" /\ tasks[i].pc = "start"})

\* C6: each disconnected event makes disconnected_event call connect() once:
\* the connect() calls made by the handler plus the handlers not yet run equal
\* the disconnected events, and once the handler's connect() has exhausted
\* its retries no handler is left to call connect() again.
C6_OneConnectPerDisconnect ==
    /\ handlerConnects + PendingDisc = discEvents
    /\ (connResult.caller = "handler" /\ connResult.result = "refused"
        /\ conn.pc = "idle")
           => \A i \in TaskIds : tasks[i].kind # "disc"

C6_Witness ==
    /\ connResult.caller = "handler"
    /\ connResult.result = "refused"
    /\ connResult.tries = max_tries
    /\ handlerConnects = 1
    /\ conn.pc = "idle"

\* C7: once one setup_subscriptions run has completed on a link, a further run
\* on that link (same gateway portfolio and contract details) changes neither
\* the 'portfolio' universe nor market_data_subscriptions nor the history
\* subscriptions open on the gateway.
C7_SetupIdempotent ==
    [][(runsDone >= 1 /\ runsDone' >= runsDone) =>
        /\ universe' = universe
        /\ market_data_subscriptions' = market_data_subscriptions
        /\ gwHist' = gwHist]_vars

C7_Witness ==
    /\ runsDone = 2
    /\ universe # <<>>
    /\ market_data_subscriptions # <<>>

\* C8: after a completed setup_subscriptions run, every portfolio item whose
\* details resolve is in the 'portfolio' universe and has a market-data
\* subscription, whatever happened to the other items.
C8_LaterItemsReconciled ==
    runsDone >= 1 =>
        \A c \in Keys(gwPortfolio) :
            gwDetails[c] = "details" =>
                (c \in Keys(universe) /\ c \in Keys(market_data_subscriptions))

\* C9: an item whose details do not resolve gets no universe entry and no
\* history subscription, and while no reconciliation is in progress every
\* key of market_data_subscriptions is an instrument of the universe.
C9_ItemAllOrNothing ==
    owner = "running" =>
        /\ \A c \in ConIds :
            gwDetails[c] # "details" => (gwHist[c] = 0 /\ c \notin Keys(universe))
        /\ (\A i \in TaskIds : tasks[i].upc = "none")
               => Keys(market_data_subscriptions) \subseteq Keys(universe)

\* lines 322-323 and 125: the connection state read off the link
ConnectionState ==
    IF link = "connected" THEN "Connected"
    ELSE IF link = "connecting" THEN "Connecting"
    ELSE "Disconnected"

\* C10: Connected is entered only from Connecting; from Disconnected the state
\* moves only to Connecting, and from Connected only to Disconnected, so a
\* reconnect passes through Connecting before Connected.
C10_NoStateSkipped ==
    [][/\ (ConnectionState' = "Connected" /\ ConnectionState # "Connected")
              => ConnectionState = "Connecting"
       /\ ConnectionState = "Disconnected"
              => ConnectionState' \in {"Disconnected", "Connecting"}
       /\ ConnectionState = "Connected"
              => ConnectionState' \in {"Connected", "Disconnected"}]_vars

C10_Witness ==
    /\ discEvents >= 1
    /\ connEvents = 2
    /\ ConnectionState = "Connected"

\* C11: on startup connect() has emptied the persisted 'portfolio' universe
\* by the time the link starts connecting, and it stays empty until the link
\* connects; on the first connection every reconciliation begins from a
\* universe that holds only entries of items reconciled in this session, so
\* nothing a previous session persisted is in it.
C11_StartupClear ==
    /\ (connEvents = 0 /\ link # "none") => universe = <<>>
    /\ (discEvents = 0 /\ link # "none") => Keys(universe) \subseteq delivered
    /\ discEvents = 0 =>
           \A i \in TaskIds :
               tasks[i].upc # "none" => Keys(tasks[i].uni) \subseteq delivered

C11_Witness ==
    /\ storeAtStart # <<>>
    /\ discEvents = 0
    /\ \E i \in TaskIds :
        /\ tasks[i].kind = "setup" /\ tasks[i].upc = "resolve"
        /\ tasks[i].uni = <<>>
    /\ universe = <<>>

\* one connection with the portfolio stream live: the snapshot replay and the
\* items the stream pushes are reconciled concurrently; no disconnect
NextOverlap ==
    \/ OwnerConnect
    \/ ConnectTry
    \/ LinkAccept
    \/ LinkRefuse
    \/ \E c \in ConIds : StreamItem(c)
    \/ \E i \in TaskIds : SetupCheck(i)
    \/ \E i \in TaskIds : SetupAttach(i)
    \/ \E i \in TaskIds : SetupPositions(i)
    \/ \E i \in TaskIds : SetupPositionsSub(i)
    \/ \E i \in TaskIds : SetupSubscribe(i)
    \/ \E i \in TaskIds : ReplayNext(i)
    \/ \E i \in TaskIds : UpdateResolved(i)
    \/ \E i \in TaskIds : UpdateSubscribed(i)
    \/ \E i \in TaskIds : SetupOrders(i)
    \/ \E i \in TaskIds : SetupFeed(i)

SpecOverlap == Init /\ [][NextOverlap]_vars

NoneInFlight == \A i \in TaskIds : tasks[i].upc = "none"

\* C12: when the details of every item handed to update_portfolio_universe on
\* the connection resolve and no reconciliation is in flight any more, the
\* persisted 'portfolio' universe holds an entry for each of those items.
C12_NoLostEntry ==
    (link = "connected" /\ NoneInFlight
     /\ \A c \in delivered : gwDetails[c] = "details")
        => delivered \subseteq Keys(universe)

\* the connection lifecycle where an iteration of connect() may also fail
\* with an error other than a refusal, before or at client.connect()
NextFatal ==
    \/ NextLife
    \/ StoreFails
    \/ LinkFails

SpecFatal == InitLife /\ [][NextFatal]_vars

\* C13: once connect() has failed with an error that is not a connection
\* refusal, at client.connect() or before it, connect() has ended: it makes no
\* further attempt, its caller has the error (the owner's startup has
\* failed), and the tries it reports are those made up to and including the
\* failing one; connect() goes into another try only after a refusal.
C13_FatalNotRetried ==
    /\ link = "failed" => connResult.result = "error"
    /\ connResult.result = "error" =>
        /\ conn.pc = "idle"
        /\ link \in {"failed", "none"}
        /\ connResult.tries >= 1
        /\ connResult.caller = "owner" => owner = "failed"
    /\ (conn.pc = "try" /\ conn.tries >= 1) => link = "disconnected"

C13_Witness ==
    /\ link = "failed"
    /\ connResult.result = "error"
    /\ connResult.tries = 1
    /\ connResult.caller = "owner"
    /\ owner = "failed"

\* a session with an empty portfolio, whose link may drop, in which the owner
\* sizes and submits one order from a price snapshot
InitOrder == InitWith({<<>>}, {[c \in ConIds |-> "details"]}, OneOrder, {1}, {<<>>})

NextOrder ==
    \/ OwnerConnect
    \/ ConnectTry
    \/ LinkAccept
    \/ LinkDisconnect
    \/ \E a \in 0..MaxNotional : HandleOrder(a)
    \/ SnapshotRequested
    \/ ObserverSubscribed
    \/ \E v \in 1..MaxPrice : StreamValue(v)
    \/ StreamError
    \/ WaitValue
    \/ SizeOrder
    \/ OrderFails

SpecOrder == InitOrder /\ [][NextOrder]_vars

\* the same session, in which an AsyncCachedObserver may also be subscribed
\* to a stream of its own and asked for its value at any time
NextCached ==
    \/ NextOrder
    \/ CachedSubscribe
    \/ \E v \in 1..MaxPrice : CachedValue(v)
    \/ CachedError
    \/ CachedWait

SpecCached == InitOrder /\ [][NextCached]_vars

\* C14: for a positive notional and a positive observed price the submitted
\* quantity is a whole number of at least 1: it is 1 when notional / price is
\* below 1, and otherwise a whole number nearest to notional / price;
\* notional 50 at price 100 gives 1.
C14_QuantityAtLeastOne ==
    (sizing.pc = "placed" /\ sizing.equity_amount > 0 /\ sizing.bid > 0) =>
        /\ sizing.quantity_int \in Nat
        /\ sizing.quantity_int >= 1
        /\ sizing.equity_amount < sizing.bid => sizing.quantity_int = 1
        /\ sizing.equity_amount >= sizing.bid =>
               /\ 2 * (sizing.quantity_int * sizing.bid - sizing.equity_amount)
                      <= sizing.bid
               /\ 2 * (sizing.equity_amount - sizing.quantity_int * sizing.bid)
                      <= sizing.bid
        /\ (sizing.equity_amount = 50 /\ sizing.bid = 100) => sizing.quantity_int = 1

C14_Witness ==
    /\ sizing.pc = "placed"
    /\ sizing.equity_amount = 50
    /\ sizing.bid = 100
    /\ sizing.quantity_int = 1

\* C15: for each wait_value() call on the observer: a call made before
\* anything arrived is suspended while nothing has arrived and has returned
\* the value V once V has arrived; a call made after V arrived has returned
\* V without suspending; a call made after the error arrived has failed with
\* the error; and the stream's error is captured, never an unhandled fault.
C15_WaitValue ==
    /\ \A i \in 1..Len(observer.waits) :
        LET w == observer.waits[i]
        IN  /\ (w.at = "open" /\ observer.stream = "open") => w.res = "suspended"
            /\ (w.at = "open" /\ observer.value # 0)
                   => (w.res = "value" /\ w.val = observer.value)
            /\ w.at = "value" => (w.res = "value" /\ w.val = observer.value)
            /\ w.at = "error" => w.res = "error"
    /\ observer.stream = "error" => (observer.error /\ ~observer.escaped)
    /\ ~observer.escaped

C15_Witness ==
    /\ observer.stream = "error"
    /\ observer.value # 0
    /\ Len(observer.waits) = 2
    /\ observer.waits[1].at = "open"
    /\ observer.waits[1].res = "value"
    /\ observer.waits[1].val = observer.value
    /\ observer.waits[2].at = "error"
    /\ observer.waits[2].res = "error"

\* C16: when every item handed to update_portfolio_universe resolves, however
\* the reconciliations of the replay and of the stream overlap, each conId
\* has at most one 'portfolio' universe entry, at most one
\* market_data_subscriptions key and at most one history subscription opened
\* on the gateway.
C16_OverlapOneSubscription ==
    (\A c \in delivered : gwDetails[c] = "details") =>
        \A c \in ConIds :
            /\ Count(universe, c) <= 1
            /\ Count(market_data_subscriptions, c) <= 1
            /\ gwHist[c] <= 1

\* C17: with a portfolio whose details resolve, once connect() has returned
\* with the link connected, every entry of the 'portfolio' universe and every
\* key of market_data_subscriptions is the conId of an item handed to
\* update_portfolio_universe after the latest connect() attempt: a
\* reconciliation begun on a previous connection leaves nothing behind when
\* it resumes after the reconnect.
C17_DisconnectSupersedes ==
    (AllResolve /\ link = "connected" /\ conn.pc = "idle") =>
        /\ Keys(universe) \subseteq delivered
        /\ Keys(market_data_subscriptions) \subseteq delivered

\* the current link is one whose connection attempt was refused
Refused ==
    /\ link = "disconnected"
    /\ \/ conn.pc = "try" /\ conn.tries >= 1
       \/ conn.pc = "idle" /\ connResult.result = "refused"

\* C18 as stated: a link whose attempt was refused has no connected handler
\* and no disconnected handler registered on it.
C18_RegisteredOnSuccess ==
    Refused => (onConnected = 0 /\ onDisconnected = 0)

\* C18: connect() registers one connected handler and one disconnected
\* handler on the new link before the attempt: from the start of the first
\* attempt on, the current link carries both handlers, whether its attempt is
\* pending, succeeded or was refused; before the first attempt there is none.
C18_RegisteredBeforeAttempt ==
    /\ link = "none" => (onConnected = 0 /\ onDisconnected = 0)
    /\ link # "none" => (onConnected = 1 /\ onDisconnected = 1)

C18_Witness ==
    /\ Refused
    /\ conn.pc = "idle"
    /\ onConnected = 1
    /\ onDisconnected = 1

PendingSetup ==
    Cardinality({i \in TaskIds : tasks[i].kind = "setup" /\ tasks[i].pc = "check"
                                 /\ tasks[i].by = "event"})

\* C19: no link has the connected or the disconnected handler registered
\* more than once; the setup_subscriptions runs started by connected_event
\* plus those scheduled and not yet started equal the connected events, and
\* the connect() calls made by disconnected_event plus the handlers not yet
\* run equal the disconnected events.
C19_HandlersOncePerLink ==
    /\ onConnected <= 1
    /\ onDisconnected <= 1
    /\ setupRuns + PendingSetup = connEvents
    /\ handlerConnects + PendingDisc = discEvents

C19_Witness ==
    /\ discEvents = 1
    /\ handlerConnects = 1
    /\ conn.caller = "handler"
    /\ conn.tries = 2
    /\ conn.pc = "attempt"
    /\ onConnected = 1
    /\ onDisconnected = 1
    /\ setupRuns = 1

\* C20: a setup_subscriptions call that finds the link not connected raises
\* ConnectionError and ends there: the Book and its attachment, the stream
\* observers, the items handed to reconciliation, the 'portfolio' universe,
\* market_data_subscriptions and the gateway's history subscriptions are
\* unchanged; and the error is raised in no other case.
C20_NotConnectedRaises ==
    [][/\ ((setupRuns' # setupRuns \/ setupErrors' # setupErrors)
           /\ link # "connected")
              => /\ setupErrors' = setupErrors + 1
                 /\ Len(tasks') = Len(tasks) - 1
                 /\ UNCHANGED <<book, bookAttached, portfolioObs, delivered,
                                universe, market_data_subscriptions, gwHist>>
       /\ setupErrors' # setupErrors => link # "connected"]_vars

C20_Witness ==
    /\ setupErrors = 1
    /\ setupRuns = 1
    /\ link = "disconnected"
    /\ ~bookAttached
    /\ book = {}
    /\ tasks = <<>>
=============================================================================
